---------------------------- MODULE Spec2Model ----------------------------
(***************************************************************************)
(* Triage system: forward-chaining rule engine, cost-sensitive Naive Bayes *)
(* decision layer, their fusion, and the priority dispatch queue.          *)
(*                                                                         *)
(* Several specifications share the variables of this module:                 *)
(*   Spec        the TriageQueue object driven by whole API calls          *)
(*   SpecRoundTrip  enqueue N tickets, snapshot(), serve_next N times     *)
(*   SpecRace    two threads running serve_next / remove on one queue,     *)
(*               interleaved between their find-index and pop steps        *)
(*   SpecFusion  one request through triage_with_rules_and_nb              *)
(*   SpecDecide  one call of decide_cost_sensitive, any floor, evidence    *)
(*               threshold and confidence margin                           *)
(*   SpecReads   the TriageQueue API including its read-only methods       *)
(*   SpecDecideAny  decide_cost_sensitive on whatever the estimator returns *)
(*   SpecMain    start-up of main (ensure_trained), then the requests      *)
(*   SpecChain   one call of forward_chain, an iteration at a time, on     *)
(*               small rule sets and fact sets with missing keys           *)
(*               (FairSpecChain: the same, the call running on)            *)
(*   SpecChainFloor    the same call on rule sets of triage_min rules      *)
(*   SpecChainDefault  the same call on default_kb() and preprocessed      *)
(*               facts                                                     *)
(*   SpecSeverity  the severity comparisons of the three modules           *)
(*   SpecDispatch  the TriageQueue called for ever, serve_next again and   *)
(*               again                                                     *)
(*                                                                         *)
(* Probabilities are exact rationals k/PGrid; costs are the integers of    *)
(* DEFAULT_COST, so every comparison of expected costs is exact.  Arrival  *)
(* timestamps (floats read from time.time()) are the integers 1..MaxTime:  *)
(* only their order is used by the code.                                   *)
(***************************************************************************)
EXTENDS Integers, Sequences, FiniteSets, TLC

VARIABLES
    queues,       \* TriageQueue.queues : severity -> list of Patient
    id_counter,   \* value the next next(_id_counter) returns
    n_enqueued,   \* number of enqueue calls so far (identity of Patient objects)
    n_returned,   \* number of serve_next / remove calls that returned a Patient
    ret,          \* what the last API call returned
    snap,         \* the list the last snapshot() call returned, and what was served since
    thr,          \* SpecRace: the two threads' local variables
    pc,           \* SpecFusion: position of the request in the pipeline
    facts_in,     \* SpecFusion: facts produced by preprocess_input
    rules_out,    \* SpecFusion: what forward_chain returned
    probs,        \* SpecFusion: posterior handed back with the result
    y_final,         \* SpecFusion: final severity
    nb_calls,     \* SpecFusion: number of predict_proba invocations for the request
    dec,          \* SpecDecide: arguments and result of one decide_cost_sensitive call
    nb_model,     \* what ensure_trained finds on disk, then what main holds as nb_model
    chain         \* SpecChain: locals of one forward_chain call

vars == <<queues, id_counter, n_enqueued, n_returned, ret, snap, thr,
          pc, facts_in, rules_out, probs, y_final, nb_calls, dec, nb_model, chain>>

queue_vars == <<queues, id_counter, n_enqueued, n_returned, ret>>
fusion_vars == <<pc, facts_in, rules_out, probs, y_final, nb_calls, dec, nb_model, chain>>

---------------------------------------------------------------------------
(* Bounds of the model *)

MaxEnqueue == 3       \* enqueue calls in one behaviour of Spec
MaxTime == 2          \* time.time() readings are 1..MaxTime
MaxCallerIds == 1     \* enqueue calls of Spec that pass their own patient_id
MaxTrip == 3          \* enqueue calls in one behaviour of SpecRoundTrip
MaxRaceTickets == 3   \* enqueue calls in one behaviour of SpecRace
MaxReadTickets == 2   \* enqueue calls in one behaviour of SpecReads
MaxQueued == 2        \* tickets queued at a time in SpecDispatch
MaxRules == 2         \* rules in a rule set of SpecChain
MaxKnown == 3         \* features of a fact set that are not "unknown"
PGrid == 10           \* posterior probabilities are k/PGrid

---------------------------------------------------------------------------
(* priority_queue.py *)

SEVERITY_ORDER == <<"Bianco", "Verde", "Giallo", "Rosso">>

Severities == {SEVERITY_ORDER[i] : i \in 1..Len(SEVERITY_ORDER)}

\* SEVERITY_RANK = {lvl: i for i, lvl in enumerate(SEVERITY_ORDER)}
SEVERITY_RANK ==
    [lvl \in Severities |->
        (CHOOSE i \in 1..Len(SEVERITY_ORDER) : SEVERITY_ORDER[i] = lvl) - 1]

\* reversed(SEVERITY_ORDER)
RECURSIVE Reversed(_)
Reversed(s) ==
    IF s = <<>> THEN <<>> ELSE Reversed(Tail(s)) \o <<Head(s)>>

\* f"{n:04d}": decimal digits, left-padded with zeros to width 4
RECURSIVE ZeroPad4(_)
ZeroPad4(s) ==
    IF Len(s) >= 4 THEN s ELSE ZeroPad4("0" \o s)

\* new_patient_id(): f"{prefix}{next(_id_counter):04d}" with prefix "P"
new_patient_id(n) == "P" \o ZeroPad4(ToString(n))

\* Values a caller may pass as enqueue's patient_id; NoPatientId is the
\* default None (any falsy value takes the same branch of `or`).
NoPatientId == ""
CallerIds == {"P0001"}

\* Patient(patient_id, triage, arrival_ts); obj is the identity of the
\* Python object (the ordinal of the enqueue call that created it).
Patient(pid, triage, ts, obj) ==
    [patient_id |-> pid, triage |-> triage, arrival_ts |-> ts, obj |-> obj]

\* TriageQueue.__init__
EmptyQueues == [lvl \in Severities |-> <<>>]

PopAtSwap(bucket, idx) ==
    IF idx = Len(bucket) THEN SubSeq(bucket, 1, Len(bucket) - 1)
    ELSE SubSeq(bucket, 1, idx - 1) \o <<bucket[Len(bucket)]>>
         \o SubSeq(bucket, idx + 1, Len(bucket) - 1)

\* list.pop(idx), 1-based idx inside the list: the list left behind
PopAt(bucket, idx) ==
    SubSeq(bucket, 1, idx - 1) \o SubSeq(bucket, idx + 1, Len(bucket))

SortedInsertUnstable(s, x) ==
    LET before(e) == e.arrival_ts < x.arrival_ts
        notBefore(e) == e.arrival_ts >= x.arrival_ts
    IN SelectSeq(s, before) \o <<x>> \o SelectSeq(s, notBefore)

\* sorted(bucket, key=arrival_ts): a stable sort, as insertion from the left
SortedInsert(s, x) ==
    LET notAfter(e) == e.arrival_ts <= x.arrival_ts
        after(e) == e.arrival_ts > x.arrival_ts
    IN SelectSeq(s, notAfter) \o <<x>> \o SelectSeq(s, after)

RECURSIVE SortedByTs(_)
SortedByTs(bucket) ==
    IF bucket = <<>> THEN <<>>
    ELSE SortedInsert(SortedByTs(SubSeq(bucket, 1, Len(bucket) - 1)),
                      bucket[Len(bucket)])

\* _ordered_iter over the levels of `lvls` (a sequence of severities)
RECURSIVE OrderedOver(_, _)
OrderedOver(q, lvls) ==
    IF lvls = <<>> THEN <<>>
    ELSE SortedByTs(q[Head(lvls)]) \o OrderedOver(q, Tail(lvls))

SnapshotAscending(q) == OrderedOver(q, SEVERITY_ORDER)

\* TriageQueue._ordered_iter / snapshot(): list(self._ordered_iter())
Snapshot(q) == OrderedOver(q, Reversed(SEVERITY_ORDER))

\* min(range(len(bucket)), key=lambda i: bucket[i].arrival_ts), scanning
\* from index i with `best` the first minimum so far
RECURSIVE MinScan(_, _, _)
MinScan(bucket, i, best) ==
    IF i > Len(bucket) THEN best
    ELSE MinScan(bucket, i + 1,
                 IF bucket[i].arrival_ts < bucket[best].arrival_ts
                 THEN i ELSE best)

EarliestIdxLast(bucket) ==
    CHOOSE i \in 1..Len(bucket) :
        /\ \A j \in 1..Len(bucket) : bucket[i].arrival_ts <= bucket[j].arrival_ts
        /\ \A j \in (i + 1)..Len(bucket) : bucket[j].arrival_ts > bucket[i].arrival_ts

EarliestIdx(bucket) == MinScan(bucket, 2, 1)

\* serve_next's scan: the first non-empty bucket from Rosso down, or "" when
\* every bucket is empty
RECURSIVE FirstNonEmpty(_, _)
FirstNonEmpty(q, lvls) ==
    IF lvls = <<>> THEN ""
    ELSE IF q[Head(lvls)] # <<>> THEN Head(lvls)
    ELSE FirstNonEmpty(q, Tail(lvls))

ServeLevelLeast(q) == FirstNonEmpty(q, SEVERITY_ORDER)

ServeLevel(q) == FirstNonEmpty(q, Reversed(SEVERITY_ORDER))

RECURSIVE FindIdOrLast(_, _, _)
FindIdOrLast(bucket, pid, i) ==
    IF i > Len(bucket) THEN Len(bucket)
    ELSE IF bucket[i].patient_id = pid THEN i
    ELSE FindIdOrLast(bucket, pid, i + 1)

\* remove's scan: first index in `bucket` whose patient_id matches, 0 if none
RECURSIVE FindId(_, _, _)
FindId(bucket, pid, i) ==
    IF i > Len(bucket) THEN 0
    ELSE IF bucket[i].patient_id = pid THEN i
    ELSE FindId(bucket, pid, i + 1)

\* remove's outer loop over SEVERITY_ORDER: <<lvl, idx>> of the first match,
\* <<"", 0>> when no bucket holds the id
RECURSIVE FindInLevels(_, _, _)
FindInLevels(q, pid, lvls) ==
    IF lvls = <<>> THEN <<"", 0>>
    ELSE IF FindId(q[Head(lvls)], pid, 1) # 0
         THEN <<Head(lvls), FindId(q[Head(lvls)], pid, 1)>>
    ELSE FindInLevels(q, pid, Tail(lvls))

RemoveTarget(q, pid) == FindInLevels(q, pid, SEVERITY_ORDER)

\* every Patient held by the queue
Held(q) ==
    UNION {{q[lvl][i] : i \in 1..Len(q[lvl])} : lvl \in Severities}

TotalLenNoRosso(q) == Len(q["Bianco"]) + Len(q["Verde"]) + Len(q["Giallo"])

\* TriageQueue.__len__: sum(len(v) for v in self.queues.values())
TotalLen(q) == Len(q["Bianco"]) + Len(q["Verde"]) + Len(q["Giallo"]) + Len(q["Rosso"])

\* what an API call hands back: op is the method, arg its patient_id
\* argument, val the returned Patient as a list of length 1 (None: <<>>)
Returned(op, arg, val) == [op |-> op, arg |-> arg, val |-> val]

NoSnap == [valid |-> FALSE, list |-> <<>>, served |-> <<>>]

InitQueue ==
    /\ queues = EmptyQueues
    /\ id_counter = 1
    /\ n_enqueued = 0
    /\ n_returned = 0
    /\ ret = Returned("init", "", <<>>)

\* the id enqueue gives the new Patient: patient_id or new_patient_id()
EnqueueId(arg, counter) ==
    IF arg # NoPatientId THEN arg ELSE new_patient_id(counter)

AppendedFront(bucket, patient) == <<patient>> \o bucket

\* the bucket after self.queues[triage].append(patient)
Appended(bucket, patient) == Append(bucket, patient)

EnqueueMisfiled(triage, arg, ts) ==
    LET patient == Patient(EnqueueId(arg, id_counter), triage, ts, n_enqueued + 1)
    IN /\ queues' = [queues EXCEPT !["Bianco"] = Appended(@, patient)]
       /\ id_counter' = IF arg # NoPatientId THEN id_counter ELSE id_counter + 1
       /\ n_enqueued' = n_enqueued + 1
       /\ n_returned' = n_returned
       /\ ret' = Returned("enqueue", arg, <<patient>>)

\* TriageQueue.enqueue(triage, payload, patient_id) with time.time() = ts
Enqueue(triage, arg, ts) ==
    LET patient == Patient(EnqueueId(arg, id_counter), triage, ts, n_enqueued + 1)
    IN /\ queues' = [queues EXCEPT ![triage] = Appended(@, patient)]
       /\ id_counter' = IF arg # NoPatientId THEN id_counter ELSE id_counter + 1
       /\ n_enqueued' = n_enqueued + 1
       /\ n_returned' = n_returned
       /\ ret' = Returned("enqueue", arg, <<patient>>)

ServeNextKeepsLast ==
    LET lvl == ServeLevel(queues)
    IN IF lvl = ""
       THEN /\ ret' = Returned("serve_next", "", ret.val)
            /\ UNCHANGED <<queues, n_returned>>
       ELSE LET idx == EarliestIdx(queues[lvl])
            IN /\ ret' = Returned("serve_next", "", <<queues[lvl][idx]>>)
               /\ queues' = [queues EXCEPT ![lvl] = PopAt(@, idx)]
               /\ n_returned' = n_returned + 1

\* TriageQueue.serve_next()
ServeNext ==
    LET lvl == ServeLevel(queues)
    IN IF lvl = ""
       THEN /\ ret' = Returned("serve_next", "", <<>>)
            /\ UNCHANGED <<queues, n_returned>>
       ELSE LET idx == EarliestIdx(queues[lvl])
            IN /\ ret' = Returned("serve_next", "", <<queues[lvl][idx]>>)
               /\ queues' = [queues EXCEPT ![lvl] = PopAt(@, idx)]
               /\ n_returned' = n_returned + 1

RemoveKeeps(pid) ==
    LET hit == RemoveTarget(queues, pid)
    IN IF hit[2] = 0
       THEN /\ ret' = Returned("remove", pid, <<>>)
            /\ UNCHANGED <<queues, n_returned>>
       ELSE /\ ret' = Returned("remove", pid, <<queues[hit[1]][hit[2]]>>)
            /\ n_returned' = n_returned + 1
            /\ UNCHANGED queues

\* TriageQueue.remove(patient_id)
Remove(pid) ==
    LET hit == RemoveTarget(queues, pid)
    IN IF hit[2] = 0
       THEN /\ ret' = Returned("remove", pid, <<>>)
            /\ UNCHANGED <<queues, n_returned>>
       ELSE /\ ret' = Returned("remove", pid, <<queues[hit[1]][hit[2]]>>)
            /\ queues' = [queues EXCEPT ![hit[1]] = PopAt(@, hit[2])]
            /\ n_returned' = n_returned + 1

\* ids a caller can ask remove for: every id handed out or supplied so far,
\* and one that no ticket carries
UnknownId == "P9999"
RemoveArgs == {new_patient_id(n) : n \in 1..MaxEnqueue} \cup CallerIds \cup {UnknownId}

\* the patient_id arguments of enqueue: none, or one of CallerIds while fewer
\* than MaxCallerIds calls have passed their own
EnqueueArgs ==
    IF n_enqueued - (id_counter - 1) < MaxCallerIds
    THEN CallerIds \cup {NoPatientId} ELSE {NoPatientId}

EnqueueOp ==
    \E triage \in Severities, arg \in EnqueueArgs, ts \in 1..MaxTime :
        /\ n_enqueued < MaxEnqueue
        /\ Enqueue(triage, arg, ts)
        /\ UNCHANGED <<snap, thr, fusion_vars>>

ServeNextOp ==
    /\ ServeNext
    /\ UNCHANGED <<id_counter, n_enqueued, snap, thr, fusion_vars>>

RemoveOp ==
    \E pid \in RemoveArgs :
        /\ Remove(pid)
        /\ UNCHANGED <<id_counter, n_enqueued, snap, thr, fusion_vars>>

\* SpecRoundTrip, SpecRace, SpecFusion and SpecDecide state, idle under Spec
NoThreads == <<>>
NoCall == [pc |-> "idle"]
NoChain == [pc |-> "idle"]
IdleFusion ==
    /\ pc = "idle"
    /\ facts_in = <<>>
    /\ rules_out = <<>>
    /\ probs = <<>>
    /\ y_final = ""
    /\ nb_calls = 0
    /\ dec = NoCall
    /\ nb_model = "loaded"
    /\ chain = NoChain

Init ==
    /\ InitQueue
    /\ snap = NoSnap
    /\ thr = NoThreads
    /\ IdleFusion

Next ==
    \/ EnqueueOp
    \/ ServeNextOp
    \/ RemoveOp

Spec == Init /\ [][Next]_vars

---------------------------------------------------------------------------
(* Round trip: enqueue N tickets, take snapshot(), then serve_next N times.  *)
(* snap holds the list snapshot() returned and the tickets served since.     *)

TripEnqueue ==
    \E triage \in Severities, ts \in 1..MaxTime :
        /\ ~snap.valid
        /\ n_enqueued < MaxTrip
        /\ Enqueue(triage, NoPatientId, ts)
        /\ UNCHANGED <<snap, thr, fusion_vars>>

\* TriageQueue.snapshot(): the caller keeps the returned list
TripSnapshot ==
    /\ ~snap.valid
    /\ snap' = [valid |-> TRUE, list |-> Snapshot(queues), served |-> <<>>]
    /\ ret' = Returned("snapshot", "", <<>>)
    /\ UNCHANGED <<queues, id_counter, n_enqueued, n_returned, thr, fusion_vars>>

TripServe ==
    /\ snap.valid
    /\ Len(snap.served) < Len(snap.list)
    /\ ServeNext
    /\ snap' = [snap EXCEPT !.served = @ \o ret'.val]
    /\ UNCHANGED <<id_counter, n_enqueued, thr, fusion_vars>>

NextRoundTrip ==
    \/ TripEnqueue
    \/ TripSnapshot
    \/ TripServe

SpecRoundTrip == Init /\ [][NextRoundTrip]_vars

---------------------------------------------------------------------------
(* Dispatch without end: enqueue, serve_next and remove called for ever,   *)
(* serve_next again and again.  At most MaxQueued tickets are queued at a   *)
(* time; the counts of calls are not kept, a new Patient object takes the   *)
(* least identity no queued Patient has, and tickets are enqueued under the *)
(* ids of CallerIds, so that the id counter stays where it is.              *)

FreeObj(q) == CHOOSE o \in 1..MaxQueued :
    /\ \A t \in Held(q) : t.obj # o
    /\ \A n \in 1..(o - 1) : \E t \in Held(q) : t.obj = n

\* TriageQueue.enqueue(triage, patient_id=arg) with time.time() = ts
DispatchEnqueue ==
    \E triage \in Severities, arg \in CallerIds, ts \in 1..MaxTime :
        LET patient == Patient(EnqueueId(arg, id_counter), triage, ts, FreeObj(queues))
        IN /\ TotalLen(queues) < MaxQueued
           /\ queues' = [queues EXCEPT ![triage] = Appended(@, patient)]
           /\ ret' = Returned("enqueue", arg, <<patient>>)
           /\ UNCHANGED <<id_counter, n_enqueued, n_returned, snap, thr, fusion_vars>>

\* TriageQueue.serve_next()
DispatchServeNext ==
    LET lvl == ServeLevel(queues)
    IN /\ IF lvl = ""
          THEN /\ ret' = Returned("serve_next", "", <<>>)
               /\ UNCHANGED queues
          ELSE LET idx == EarliestIdx(queues[lvl])
               IN /\ ret' = Returned("serve_next", "", <<queues[lvl][idx]>>)
                  /\ queues' = [queues EXCEPT ![lvl] = PopAt(@, idx)]
       /\ UNCHANGED <<id_counter, n_enqueued, n_returned, snap, thr, fusion_vars>>

\* TriageQueue.remove(patient_id)
DispatchRemove ==
    \E pid \in CallerIds \cup {UnknownId} :
        LET hit == RemoveTarget(queues, pid)
        IN /\ IF hit[2] = 0
              THEN /\ ret' = Returned("remove", pid, <<>>)
                   /\ UNCHANGED queues
              ELSE /\ ret' = Returned("remove", pid, <<queues[hit[1]][hit[2]]>>)
                   /\ queues' = [queues EXCEPT ![hit[1]] = PopAt(@, hit[2])]
           /\ UNCHANGED <<id_counter, n_enqueued, n_returned, snap, thr, fusion_vars>>

NextDispatch ==
    \/ DispatchEnqueue
    \/ DispatchServeNext
    \/ DispatchRemove

\* serve_next is called again and again
SpecDispatch == Init /\ [][NextDispatch]_vars /\ WF_vars(DispatchServeNext)

---------------------------------------------------------------------------
(* The whole API of TriageQueue, one call at a time: enqueue, serve_next,   *)
(* remove and the read-only get_position, snapshot and __len__.  snap is    *)
(* the list object the caller got from its last snapshot() call.  Ids are   *)
(* the generated ones; caller-supplied ids are exercised by Spec.           *)

\* get_position's loop over _ordered_iter(): <<pos>> at the first match,
\* <<>> (None) when the iterator is exhausted
RECURSIVE PositionFrom(_, _, _)
PositionFrom(ordered, pid, pos) ==
    IF pos > Len(ordered) THEN <<>>
    ELSE IF ordered[pos].patient_id = pid THEN <<pos>>
    ELSE PositionFrom(ordered, pid, pos + 1)

\* TriageQueue.get_position(patient_id)
get_position(q, pid) == PositionFrom(OrderedOver(q, Reversed(SEVERITY_ORDER)), pid, 1)

\* no snapshot() call yet
NoList == [valid |-> FALSE, list |-> <<>>, clean |-> FALSE, repeat |-> <<>>]

KeptListLive(list, q) == Snapshot(q)

\* the caller's list after the queue became q: list(self._ordered_iter())
\* built a new list object, which no queue method touches
KeptList(list, q) == list

\* what a mutating call leaves of the caller's snapshot
AfterMutation(q) == [snap EXCEPT !.list = KeptList(@, q), !.clean = FALSE]

\* ids a caller can ask get_position and remove for: those enqueue hands
\* out (as every caller in the repository lets it), and one never handed out
ReadArgs == {new_patient_id(n) : n \in 1..MaxReadTickets} \cup {UnknownId}

InitReads ==
    /\ InitQueue
    /\ snap = NoList
    /\ thr = NoThreads
    /\ IdleFusion

ReadsEnqueue ==
    \E triage \in Severities, arg \in {NoPatientId}, ts \in 1..MaxTime :
        /\ n_enqueued < MaxReadTickets
        /\ Enqueue(triage, arg, ts)
        /\ snap' = AfterMutation(queues')
        /\ UNCHANGED <<thr, fusion_vars>>

ReadsServeNext ==
    /\ ServeNext
    /\ snap' = AfterMutation(queues')
    /\ UNCHANGED <<id_counter, n_enqueued, thr, fusion_vars>>

ReadsRemove ==
    \E pid \in ReadArgs :
        /\ Remove(pid)
        /\ snap' = AfterMutation(queues')
        /\ UNCHANGED <<id_counter, n_enqueued, thr, fusion_vars>>

\* TriageQueue.get_position(patient_id)
GetPositionOp ==
    \E pid \in ReadArgs :
        /\ ret' = Returned("get_position", pid, get_position(queues, pid))
        /\ UNCHANGED <<queues, id_counter, n_enqueued, n_returned, snap, thr, fusion_vars>>

\* TriageQueue.snapshot(); repeat keeps the list of the previous call when
\* no enqueue / serve_next / remove ran in between
SnapshotOp ==
    /\ snap' = [valid |-> TRUE, list |-> Snapshot(queues), clean |-> TRUE,
                repeat |-> IF snap.valid /\ snap.clean THEN <<snap.list>> ELSE <<>>]
    /\ ret' = Returned("snapshot", "", <<>>)
    /\ UNCHANGED <<queues, id_counter, n_enqueued, n_returned, thr, fusion_vars>>

\* TriageQueue.__len__()
LenOp ==
    /\ ret' = Returned("len", "", <<TotalLen(queues)>>)
    /\ UNCHANGED <<queues, id_counter, n_enqueued, n_returned, snap, thr, fusion_vars>>

NextReads ==
    \/ ReadsEnqueue
    \/ ReadsServeNext
    \/ ReadsRemove
    \/ GetPositionOp
    \/ SnapshotOp
    \/ LenOp

SpecReads == InitReads /\ [][NextReads]_vars

---------------------------------------------------------------------------
(* Two callers on one TriageQueue, which holds no lock.  serve_next and    *)
(* remove each compute an index into a bucket and then call                *)
(* bucket.pop(index); the other thread may run between the two.  (CPython  *)
(* may also switch threads inside the scans; those finer interleavings are *)
(* left out, so every behaviour here is one the code has.)                 *)

Threads == {"T1", "T2"}

IdleThread == [pc |-> "idle", op |-> "", pid |-> "", lvl |-> "", idx |-> 0, val |-> <<>>]

RaceIds == {new_patient_id(n) : n \in 1..MaxRaceTickets}

InitRace ==
    /\ InitQueue
    /\ snap = NoSnap
    /\ thr = [t \in Threads |-> IdleThread]
    /\ IdleFusion

RaceEnqueue ==
    \E triage \in Severities, ts \in 1..MaxTime :
        /\ \A t \in Threads : thr[t].pc = "idle"
        /\ n_enqueued < MaxRaceTickets
        /\ Enqueue(triage, NoPatientId, ts)
        /\ UNCHANGED <<snap, thr, fusion_vars>>

\* serve_next up to the evaluation of earliest_idx (lines 118-122)
ServeFind(t) ==
    LET lvl == ServeLevel(queues)
    IN /\ thr[t].pc = "idle"
       /\ thr' = [thr EXCEPT ![t] =
                    IF lvl = ""
                    THEN [IdleThread EXCEPT !.pc = "done", !.op = "serve_next"]
                    ELSE [IdleThread EXCEPT !.pc = "pop", !.op = "serve_next",
                                            !.lvl = lvl,
                                            !.idx = EarliestIdx(queues[lvl])]]
       /\ UNCHANGED <<queue_vars, snap, fusion_vars>>

\* remove up to the match p.patient_id == patient_id (lines 104-107)
RemoveFind(t, pid) ==
    LET hit == RemoveTarget(queues, pid)
    IN /\ thr[t].pc = "idle"
       /\ thr' = [thr EXCEPT ![t] =
                    IF hit[2] = 0
                    THEN [IdleThread EXCEPT !.pc = "done", !.op = "remove", !.pid = pid]
                    ELSE [IdleThread EXCEPT !.pc = "pop", !.op = "remove", !.pid = pid,
                                            !.lvl = hit[1], !.idx = hit[2]]]
       /\ UNCHANGED <<queue_vars, snap, fusion_vars>>

\* return bucket.pop(idx) (lines 108, 123): IndexError when the bucket has
\* become shorter than idx, else whatever now sits at idx
PopFound(t) ==
    LET bucket == queues[thr[t].lvl]
        idx == thr[t].idx
    IN /\ thr[t].pc = "pop"
       /\ IF idx > Len(bucket)
          THEN /\ thr' = [thr EXCEPT ![t].pc = "raised"]
               /\ UNCHANGED <<queues, n_returned>>
          ELSE /\ thr' = [thr EXCEPT ![t].pc = "done", ![t].val = <<bucket[idx]>>]
               /\ queues' = [queues EXCEPT ![thr[t].lvl] = PopAt(@, idx)]
               /\ n_returned' = n_returned + 1
       /\ UNCHANGED <<id_counter, n_enqueued, ret, snap, fusion_vars>>

NextRace ==
    \/ RaceEnqueue
    \/ \E t \in Threads : ServeFind(t)
    \/ \E t \in Threads, pid \in RaceIds : RemoveFind(t, pid)
    \/ \E t \in Threads : PopFound(t)

SpecRace == InitRace /\ [][NextRace]_vars

---------------------------------------------------------------------------
(* rules_engine.py *)

\* facts.get(k): None for a missing key
NoneVal == "None"
Get(facts, k) == IF k \in DOMAIN facts THEN facts[k] ELSE NoneVal

\* facts[k] = v
Put(facts, k, v) ==
    [x \in DOMAIN facts \cup {k} |-> IF x = k THEN v ELSE facts[x]]

Rule(id, any_conditions, all_conditions, then, priority) ==
    [id |-> id, any_conditions |-> any_conditions,
     all_conditions |-> all_conditions, then |-> then, priority |-> priority]

\* default_kb(); `then` is the rule's dict
default_kb ==
    << Rule("R1_ipossia_shock_coscienza",
            << <<"spo2_cat", "severa">>, <<"sbp_cat", "severa">>,
               <<"alterazione_coscienza", "yes">> >>,
            << >>, "triage" :> "Rosso", 100),
       Rule("R2_trauma_o_sanguinamento",
            << <<"trauma_magg", "yes">>, <<"sanguinamento_massivo", "yes">> >>,
            << >>, "triage" :> "Rosso", 95),
       Rule("R3_dolore_toracico_e_dispnea",
            << >>,
            << <<"dolore_toracico", "yes">>, <<"dispnea", "yes">> >>,
            "triage_min" :> "Giallo", 70),
       Rule("R4_tachipnea_moderata_con_dispnea",
            << >>,
            << <<"rr_cat", "alta">>, <<"dispnea", "yes">> >>,
            "triage_min" :> "Giallo", 60),
       Rule("R5_febbre_alta_senza_allarme",
            << >>,
            << <<"temp_cat", "alta">>, <<"alterazione_coscienza", "no">>,
               <<"dispnea", "no">> >>,
            "triage" :> "Verde", 40),
       Rule("R6_fallback_bianco", << >>, << >>, "triage" :> "Bianco", 0) >>

\* Rule.specificity
specificity(r) == Len(r.any_conditions) + Len(r.all_conditions)

\* lines 21-23 from the i-th pair: False at the first pair that fails
RECURSIVE AllFrom(_, _, _)
AllFrom(conds, facts, i) ==
    IF i > Len(conds) THEN TRUE
    ELSE IF Get(facts, conds[i][1]) # conds[i][2] THEN FALSE
    ELSE AllFrom(conds, facts, i + 1)

\* any(facts.get(k) == v for k, v in conds) from the i-th pair
RECURSIVE AnyFrom(_, _, _)
AnyFrom(conds, facts, i) ==
    IF i > Len(conds) THEN FALSE
    ELSE IF Get(facts, conds[i][1]) = conds[i][2] THEN TRUE
    ELSE AnyFrom(conds, facts, i + 1)

matchesNeedsAny(r, facts) ==
    IF ~AllFrom(r.all_conditions, facts, 1) THEN FALSE
    ELSE AnyFrom(r.any_conditions, facts, 1)

\* Rule.matches(facts)
matches(r, facts) ==
    IF ~AllFrom(r.all_conditions, facts, 1) THEN FALSE
    ELSE IF r.any_conditions # <<>> THEN AnyFrom(r.any_conditions, facts, 1)
    ELSE TRUE

ORDER == <<"Bianco", "Verde", "Giallo", "Rosso">>

\* ORDER.index(a)
OrderIndex(a) == (CHOOSE i \in 1..Len(ORDER) : ORDER[i] = a) - 1

max_severity_latest(a, b) == b

\* rules_engine.max_severity
max_severity(a, b) == IF OrderIndex(a) >= OrderIndex(b) THEN a ELSE b

BestFromLowest(cands, i, best) == cands[Len(cands)]

RECURSIVE BestFromLast(_, _, _)
BestFromLast(cands, i, best) ==
    IF i > Len(cands) THEN cands[best]
    ELSE BestFromLast(cands, i + 1,
            IF \/ cands[i].priority > cands[best].priority
               \/ /\ cands[i].priority = cands[best].priority
                  /\ specificity(cands[i]) >= specificity(cands[best])
            THEN i ELSE best)

\* candidates.sort(key=(priority, specificity), reverse=True); candidates[0]:
\* the sort is stable, so the first candidate of the largest key
RECURSIVE BestFrom(_, _, _)
BestFrom(cands, i, best) ==
    IF i > Len(cands) THEN cands[best]
    ELSE BestFrom(cands, i + 1,
            IF \/ cands[i].priority > cands[best].priority
               \/ /\ cands[i].priority = cands[best].priority
                  /\ specificity(cands[i]) > specificity(cands[best])
            THEN i ELSE best)

InSeq(x, s) == \E i \in 1..Len(s) : s[i] = x

\* lines 116-122: consolidation of the guaranteed minimum and the result
Consolidate(facts, fired, triage_min) ==
    LET triage == IF "triage" \in DOMAIN facts THEN facts["triage"] ELSE "Bianco"
    IN IF triage_min # NoneVal
       THEN [triage |-> max_severity(triage, triage_min), fired |-> fired,
             facts |-> Put(facts, "triage", max_severity(triage, triage_min))]
       ELSE [triage |-> triage, fired |-> fired, facts |-> facts]

\* the while loop of forward_chain from working state (facts, fired, triage_min)
RECURSIVE ChainFrom(_, _, _, _)
ChainFrom(facts, fired, triage_min, kb) ==
    LET eligible(r) == ~InSeq(r.id, fired) /\ matches(r, facts)
        candidates == SelectSeq(kb, eligible)
    IN IF candidates = <<>>
       THEN Consolidate(facts, fired, triage_min)
       ELSE LET r == BestFrom(candidates, 2, 1)
                facts2 == IF "triage" \in DOMAIN r.then
                          THEN Put(facts, "triage", r.then["triage"])
                          ELSE facts
                min2 == IF "triage_min" \in DOMAIN r.then
                        THEN IF triage_min = NoneVal
                             THEN r.then["triage_min"]
                             ELSE max_severity(triage_min, r.then["triage_min"])
                        ELSE triage_min
                fired2 == Append(fired, r.id)
            IN IF Get(facts2, "triage") = "Rosso"
               THEN Consolidate(facts2, fired2, min2)
               ELSE ChainFrom(facts2, fired2, min2, kb)

\* forward_chain(facts, kb) -> (triage, fired, facts)
forward_chain(facts, kb) == ChainFrom(facts, <<>>, NoneVal, kb)

---------------------------------------------------------------------------
(* One call forward_chain(facts, kb), an iteration of its loop at a time,   *)
(* for fact sets that may lack keys and for rule sets other than            *)
(* default_kb().  chain.caller is the dict the caller passed, chain.facts   *)
(* the working dict of line 91.                                             *)

\* conditions rules are built from; the last one tests a derived fact
CondSevera == <<"spo2_cat", "severa">>
CondUnknown == <<"spo2_cat", "unknown">>
CondDispnea == <<"dispnea", "yes">>
CondVerde == <<"triage", "Verde">>

Priorities == {0, 1}

\* rules before they get their id
\* <<any_conditions, all_conditions>> of the rules
Shapes ==
    { <<<<>>, <<>>>>,
      <<<<CondSevera, CondDispnea>>, <<>>>>,
      <<<<>>, <<CondUnknown>>>>,
      <<<<CondSevera, CondDispnea>>, <<CondDispnea, CondVerde>>>> }

RulePool ==
    {Rule("", shape[1], shape[2], then, prio) :
        shape \in Shapes,
        then \in {"triage" :> "Verde", "triage" :> "Rosso", "triage_min" :> "Giallo"},
        prio \in Priorities}

\* the i-th rule of a list is given the id "R<i>": ids are distinct
RuleId(i) == "R" \o ToString(i)

\* the lists of at most MaxRules rules of a pool
RuleSetsOver(pool) ==
    UNION {{[i \in 1..n |-> [rs[i] EXCEPT !.id = RuleId(i)]] :
                rs \in [1..n -> pool]} : n \in 0..MaxRules}

RuleSets == RuleSetsOver(RulePool)

\* fact dicts over two features, each present with a value or missing
ChainFeatures == {"spo2_cat", "dispnea"}
ChainValues ==
    [spo2_cat |-> {"severa", "unknown"}, dispnea |-> {"yes", "unknown"}]
ChainFacts ==
    UNION {{f \in [K -> {"severa", "yes", "unknown"}] :
                \A k \in K : f[k] \in ChainValues[k]} :
           K \in SUBSET ChainFeatures}

CallerDictAliased(caller, working) == working

\* the caller's dict after the working dict was written: line 91,
\* facts = dict(facts), made the working dict a separate object
CallerDict(caller, working) == caller

CandidatesRefire(kb, facts, fired) ==
    SelectSeq(kb, LAMBDA r : matches(r, facts))

\* line 97: [r for r in kb if r.id not in fired and r.matches(facts)]
Candidates(kb, facts, fired) ==
    SelectSeq(kb, LAMBDA r : ~InSeq(r.id, fired) /\ matches(r, facts))

ReachedRossoNever(facts) == FALSE

\* line 113: facts.get("triage") == "Rosso"
ReachedRosso(facts) == Get(facts, "triage") = "Rosso"

\* lines 90-93: the locals of a call forward_chain(f, kb) before the loop
ChainEntry(f, kb) ==
    [pc |-> "loop", kb |-> kb, caller |-> f, facts |-> f,
     fired |-> <<>>, triage_min |-> NoneVal, triage |-> NoneVal]

InitChain ==
    /\ InitQueue
    /\ snap = NoSnap
    /\ thr = NoThreads
    /\ pc = "idle"
    /\ facts_in = <<>>
    /\ rules_out = <<>>
    /\ probs = <<>>
    /\ y_final = ""
    /\ nb_calls = 0
    /\ dec = NoCall
    /\ nb_model = "loaded"
    /\ chain \in {ChainEntry(f, kb) : f \in ChainFacts, kb \in RuleSets}

\* lines 97-114: one iteration that finds candidates and fires the first
\* of the sorted list
ChainFire ==
    LET candidates == Candidates(chain.kb, chain.facts, chain.fired)
        r == BestFrom(candidates, 2, 1)
        facts2 == IF "triage" \in DOMAIN r.then
                  THEN Put(chain.facts, "triage", r.then["triage"])
                  ELSE chain.facts
        min2 == IF "triage_min" \in DOMAIN r.then
                THEN IF chain.triage_min = NoneVal
                     THEN r.then["triage_min"]
                     ELSE max_severity(chain.triage_min, r.then["triage_min"])
                ELSE chain.triage_min
    IN /\ chain.pc = "loop"
       /\ candidates # <<>>
       /\ chain' = [chain EXCEPT !.facts = facts2,
                                 !.caller = CallerDict(@, facts2),
                                 !.triage_min = min2,
                                 !.fired = Append(@, r.id),
                                 !.pc = IF ReachedRosso(facts2) THEN "exit" ELSE "loop"]
       /\ UNCHANGED <<queue_vars, snap, thr, pc, facts_in, rules_out, probs,
                      y_final, nb_calls, dec, nb_model>>

\* lines 98-99 (no candidates: break) or after the break of line 114, then
\* lines 116-122
ChainReturn ==
    LET out == Consolidate(chain.facts, chain.fired, chain.triage_min)
    IN /\ \/ chain.pc = "exit"
          \/ /\ chain.pc = "loop"
             /\ Candidates(chain.kb, chain.facts, chain.fired) = <<>>
       /\ chain' = [chain EXCEPT !.facts = out.facts,
                                 !.caller = CallerDict(@, out.facts),
                                 !.triage = out.triage,
                                 !.pc = "done"]
       /\ UNCHANGED <<queue_vars, snap, thr, pc, facts_in, rules_out, probs,
                      y_final, nb_calls, dec, nb_model>>

NextChain ==
    \/ ChainFire
    \/ ChainReturn

SpecChain == InitChain /\ [][NextChain]_vars

(* The same call on rule sets made for the guaranteed minimum: rules     *)
(* that raise triage_min to each severity, and rules that set triage.    *)
FloorPool ==
    {Rule("", <<>>, all, then, prio) :
        all \in {<<>>, <<CondDispnea>>},
        then \in {"triage_min" :> "Verde", "triage_min" :> "Giallo",
                  "triage_min" :> "Rosso", "triage" :> "Giallo"},
        prio \in Priorities}

FloorFacts == {f \in ChainFacts : DOMAIN f = {"dispnea"}}

InitChainFloor ==
    /\ InitQueue
    /\ snap = NoSnap
    /\ thr = NoThreads
    /\ pc = "idle"
    /\ facts_in = <<>>
    /\ rules_out = <<>>
    /\ probs = <<>>
    /\ y_final = ""
    /\ nb_calls = 0
    /\ dec = NoCall
    /\ nb_model = "loaded"
    /\ chain \in {ChainEntry(f, kb) : f \in FloorFacts, kb \in RuleSetsOver(FloorPool)}

SpecChainFloor == InitChainFloor /\ [][NextChain]_vars

\* the body of forward_chain is straight-line code around one loop, with no
\* suspension point: a call that can take a step takes it
FairSpecChain == SpecChain /\ WF_vars(NextChain)

---------------------------------------------------------------------------
(* naive_bayes.py *)

CLASSES == <<"Bianco", "Verde", "Giallo", "Rosso">>

FEATURE_SPACE ==
    [spo2_cat |-> {"severa", "moderata", "ok", "unknown"},
     sbp_cat |-> {"severa", "ok", "unknown"},
     rr_cat |-> {"alta", "ok", "unknown"},
     temp_cat |-> {"alta", "ok", "unknown"},
     dolore_toracico |-> {"yes", "no", "unknown"},
     dispnea |-> {"yes", "no", "unknown"},
     alterazione_coscienza |-> {"yes", "no", "unknown"},
     trauma_magg |-> {"yes", "no", "unknown"},
     sanguinamento_massivo |-> {"yes", "no", "unknown"}]

\* CLASSES.index(a)
ClassIndex(a) == (CHOOSE i \in 1..Len(CLASSES) : CLASSES[i] = a) - 1

\* naive_bayes.max_severity
nb_max_severity_first(a, b) == a

nb_max_severity(a, b) == IF ClassIndex(a) >= ClassIndex(b) THEN a ELSE b

\* DEFAULT_COST[(ytrue, yhat)] after _init_default_cost()
DEFAULT_COST(ytrue, yhat) ==
    CASE ytrue = yhat -> 0
      [] ytrue = "Rosso" /\ yhat = "Giallo" -> 30
      [] ytrue = "Rosso" /\ yhat = "Verde" -> 60
      [] ytrue = "Rosso" /\ yhat = "Bianco" -> 120
      [] ytrue = "Giallo" /\ yhat = "Verde" -> 8
      [] ytrue = "Giallo" /\ yhat = "Bianco" -> 16
      [] ytrue = "Verde" /\ yhat = "Giallo" -> 4
      [] ytrue = "Bianco" /\ yhat = "Verde" -> 3
      [] ytrue = "Verde" /\ yhat = "Rosso" -> 6
      [] ytrue = "Bianco" /\ yhat = "Rosso" -> 8
      [] OTHER -> 1

\* expected_cost(probs, yhat), in units of 1/PGrid
expected_cost(p, yhat) ==
    p["Bianco"] * DEFAULT_COST("Bianco", yhat) + p["Verde"] * DEFAULT_COST("Verde", yhat)
    + p["Giallo"] * DEFAULT_COST("Giallo", yhat) + p["Rosso"] * DEFAULT_COST("Rosso", yhat)

RECURSIVE ArgminFromLast(_, _, _, _)
ArgminFromLast(p, cands, i, best) ==
    IF i > Len(cands) THEN best
    ELSE ArgminFromLast(p, cands, i + 1,
            IF best = "" \/ expected_cost(p, cands[i]) <= expected_cost(p, best)
            THEN cands[i] ELSE best)

\* the loop `if c < best_cost: best, best_cost = yhat, c` over cands[i..],
\* best = "" standing for (None, inf)
RECURSIVE ArgminFrom(_, _, _, _)
ArgminFrom(p, cands, i, best) ==
    IF i > Len(cands) THEN best
    ELSE ArgminFrom(p, cands, i + 1,
            IF best = "" \/ expected_cost(p, cands[i]) < expected_cost(p, best)
            THEN cands[i] ELSE best)

\* argmin_expected_cost(probs)
argmin_expected_cost(p) == ArgminFrom(p, CLASSES, 1, "")

\* max(probs.items(), key=lambda kv: kv[1])[0]: first class of largest probability
RECURSIVE MapFrom(_, _, _)
MapFrom(p, i, best) ==
    IF i > Len(CLASSES) THEN best
    ELSE MapFrom(p, i + 1, IF p[CLASSES[i]] > p[best] THEN CLASSES[i] ELSE best)

map_label(p) == MapFrom(p, 2, CLASSES[1])

\* defaults of decide_cost_sensitive, in percent
rosso_min_prob == 15
map_margin == 10

\* lines 178-188: guardrail; y is the choice after the triage_min step
Guardrail(p, y, triage_min, min_prob_pct) ==
    IF triage_min # "Rosso" /\ y = "Rosso" /\ 100 * p["Rosso"] < min_prob_pct * PGrid
    THEN ArgminFrom(p, SelectSeq(CLASSES, LAMBDA c : c # "Rosso"), 1, "")
    ELSE y

MapOverrideWithFloor(p, y, triage_min, margin_pct) ==
    IF /\ map_label(p) # y
       /\ 100 * (p[map_label(p)] - p[y]) >= margin_pct * PGrid
    THEN map_label(p) ELSE y

\* lines 190-195: prefer the MAP class when no triage_min is given
MapOverride(p, y, triage_min, margin_pct) ==
    IF /\ triage_min = NoneVal
       /\ map_label(p) # y
       /\ 100 * (p[map_label(p)] - p[y]) >= margin_pct * PGrid
    THEN map_label(p) ELSE y

\* NBModel.decide_cost_sensitive with predict_proba(facts) = p
decide_cost_sensitive(p, triage_min, min_prob_pct, margin_pct) ==
    LET y0 == argmin_expected_cost(p)
        y1 == IF triage_min # NoneVal THEN nb_max_severity(y0, triage_min) ELSE y0
        y2 == Guardrail(p, y1, triage_min, min_prob_pct)
    IN MapOverride(p, y2, triage_min, margin_pct)

---------------------------------------------------------------------------
(* main.py: triage_with_rules_and_nb (the submit handler of                *)
(* app_streamlit.py runs the same steps)                                   *)

\* the rule of default_kb() with this id (kb = {r.id: r ...}; kb.get(rid))
RuleById(rid) ==
    LET hits == SelectSeq(default_kb, LAMBDA r : r.id = rid)
    IN hits

\* compute_triage_min_from_fired over fired[i..] with running value tri_min
RECURSIVE TriMinFrom(_, _, _)
TriMinFrom(fired, i, tri_min) ==
    IF i > Len(fired) THEN tri_min
    ELSE LET hits == RuleById(fired[i])
         IN TriMinFrom(fired, i + 1,
                IF hits # <<>> /\ "triage_min" \in DOMAIN hits[1].then
                THEN IF tri_min = NoneVal
                     THEN hits[1].then["triage_min"]
                     ELSE nb_max_severity(tri_min, hits[1].then["triage_min"])
                ELSE tri_min)

compute_triage_min_none(fired) == NoneVal

compute_triage_min_from_fired(fired) == TriMinFrom(fired, 1, NoneVal)

\* line 59: the override test
RulesOverrideNever(triage_rules) == FALSE

RulesOverride(triage_rules) == triage_rules = "Rosso"

DegenerateOnGiallo == [c \in Severities |-> IF c = "Giallo" THEN PGrid ELSE 0]

\* line 60: the posterior returned without consulting the model
DegenerateProbs == [c \in Severities |-> IF c = "Rosso" THEN PGrid ELSE 0]

\* what predict_proba can return: every distribution k/PGrid over CLASSES
Posteriors ==
    UNION {UNION {{[c \in Severities |->
                        CASE c = "Bianco" -> b
                          [] c = "Verde" -> v
                          [] c = "Giallo" -> g
                          [] OTHER -> PGrid - b - v - g] :
                    g \in 0..(PGrid - b - v)} :
                  v \in 0..(PGrid - b)} :
           b \in 0..PGrid}

FeatureNames == DOMAIN FEATURE_SPACE

\* what preprocess_input can return with the features of `known` observed
FactsKnowing(known) ==
    {[k \in FeatureNames |-> IF k \in known THEN f[k] ELSE "unknown"] :
        f \in {g \in [known -> {"severa", "moderata", "ok", "alta", "yes", "no"}] :
                    \A k \in known : g[k] \in FEATURE_SPACE[k]}}

\* fact sets with at most MaxKnown features observed
FactSets ==
    UNION {FactsKnowing(known) :
            known \in {K \in SUBSET FeatureNames : Cardinality(K) <= MaxKnown}}

\* forward_chain(facts) of line 56, an iteration at a time: the default
\* rule set on the facts preprocess_input returns
InitChainDefault ==
    /\ InitQueue
    /\ snap = NoSnap
    /\ thr = NoThreads
    /\ pc = "idle"
    /\ facts_in = <<>>
    /\ rules_out = <<>>
    /\ probs = <<>>
    /\ y_final = ""
    /\ nb_calls = 0
    /\ dec = NoCall
    /\ nb_model = "loaded"
    /\ chain \in {ChainEntry(f, default_kb) : f \in FactSets}

SpecChainDefault == InitChainDefault /\ [][NextChain]_vars

InitFusion ==
    /\ InitQueue
    /\ snap = NoSnap
    /\ thr = NoThreads
    /\ IdleFusion

\* lines 53-61: preprocess, forward_chain, and the Rosso override
FusionRules ==
    \E facts \in FactSets :
        LET out == forward_chain(facts, default_kb)
        IN /\ pc = "idle"
           /\ facts_in' = facts
           /\ rules_out' = out
           /\ nb_calls' = 0
           /\ IF RulesOverride(out.triage)
              THEN /\ y_final' = out.triage
                   /\ probs' = DegenerateProbs
                   /\ pc' = "done"
              ELSE /\ pc' = "nb"
                   /\ UNCHANGED <<y_final, probs>>
           /\ UNCHANGED <<queue_vars, snap, thr, dec, nb_model, chain>>

\* lines 63-68: triage_min and decide_cost_sensitive, whose predict_proba
\* call returns p
FusionDecide ==
    \E p \in Posteriors :
        /\ pc = "nb"
        /\ nb_calls' = nb_calls + 1
        /\ probs' = p
        /\ y_final' = decide_cost_sensitive(p, compute_triage_min_from_fired(rules_out.fired),
                                         rosso_min_prob, map_margin)
        /\ pc' = "done"
        /\ UNCHANGED <<facts_in, rules_out, queue_vars, snap, thr, dec, nb_model, chain>>

NextFusion ==
    \/ FusionRules
    \/ FusionDecide

SpecFusion == InitFusion /\ [][NextFusion]_vars

---------------------------------------------------------------------------
(* main(): ensure_trained runs once at start-up, before the command loop;   *)
(* then a request goes through triage_with_rules_and_nb.  (app_streamlit.py *)
(* calls ensure_trained the same way at the top of the script.)             *)

\* what ensure_trained finds: data/nb_model.pkl, only data/examples.csv, or
\* neither
OnDisk == {"model_file", "csv_only", "neither"}

InitMain ==
    /\ InitQueue
    /\ snap = NoSnap
    /\ thr = NoThreads
    /\ pc = "start"
    /\ facts_in = <<>>
    /\ rules_out = <<>>
    /\ probs = <<>>
    /\ y_final = ""
    /\ nb_calls = 0
    /\ dec = NoCall
    /\ chain = NoChain
    /\ nb_model \in OnDisk

\* ensure_trained (naive_bayes.py lines 365-384) called from main lines
\* 101-104: load, train, or FileNotFoundError, which main does not catch
EnsureTrained ==
    /\ pc = "start"
    /\ IF nb_model = "neither"
       THEN /\ nb_model' = "unavailable"
            /\ pc' = "crashed"
       ELSE /\ nb_model' = IF nb_model = "model_file" THEN "loaded" ELSE "trained"
            /\ pc' = "idle"
    /\ UNCHANGED <<queue_vars, snap, thr, facts_in, rules_out, probs, y_final,
                   nb_calls, dec, chain>>

NextMain ==
    \/ EnsureTrained
    \/ FusionRules
    \/ FusionDecide

SpecMain == InitMain /\ [][NextMain]_vars

---------------------------------------------------------------------------
(* One call of NBModel.decide_cost_sensitive with arguments of the caller's *)
(* choosing: the posterior predict_proba returns, triage_min, and the two   *)
(* keyword thresholds (in percent).                                         *)

\* triage_min: None or a class
TriageMins == {NoneVal} \cup Severities

\* rosso_min_prob and map_margin settings, with the defaults among them
MinProbPcts == {0, rosso_min_prob, 25, 50, 100}
MarginPcts == {0, map_margin, 50}

DecideArgs(p, triage_min, min_prob_pct, margin_pct) ==
    [pc |-> "called", p |-> p, triage_min |-> triage_min,
     min_prob_pct |-> min_prob_pct, margin_pct |-> margin_pct]

InitDecide ==
    /\ InitQueue
    /\ snap = NoSnap
    /\ thr = NoThreads
    /\ pc = "idle"
    /\ facts_in = <<>>
    /\ rules_out = <<>>
    /\ probs = <<>>
    /\ y_final = ""
    /\ nb_calls = 0
    /\ nb_model = "loaded"
    /\ chain = NoChain
    /\ dec \in {DecideArgs(p, m, t, g) :
                p \in Posteriors, m \in TriageMins, t \in MinProbPcts, g \in MarginPcts}

\* lines 170-197, keeping the value of y after each step
Decide ==
    LET y_cost == argmin_expected_cost(dec.p)
        y_floor == IF dec.triage_min # NoneVal
                   THEN nb_max_severity(y_cost, dec.triage_min) ELSE y_cost
        y_guard == Guardrail(dec.p, y_floor, dec.triage_min, dec.min_prob_pct)
    IN /\ dec.pc = "called"
       /\ DOMAIN dec.p = Severities
       /\ dec' = [pc |-> "done", p |-> dec.p, triage_min |-> dec.triage_min,
                  min_prob_pct |-> dec.min_prob_pct, margin_pct |-> dec.margin_pct,
                  y_cost |-> y_cost, y_floor |-> y_floor, y_guard |-> y_guard,
                  y |-> decide_cost_sensitive(dec.p, dec.triage_min,
                                              dec.min_prob_pct, dec.margin_pct)]
       /\ UNCHANGED <<queue_vars, snap, thr, pc, facts_in, rules_out, probs,
                      y_final, nb_calls, nb_model, chain>>

NextDecide == Decide

SpecDecide == InitDecide /\ [][NextDecide]_vars

---------------------------------------------------------------------------
(* The same call when predict_proba hands back anything at all: values off *)
(* the simplex (negative, or not summing to 1) or a dict lacking a class.   *)
(* The thresholds are the defaults.                                         *)

\* probs is a distribution over CLASSES
ValidPosterior(p) ==
    /\ DOMAIN p = Severities
    /\ \A c \in Severities : p[c] >= 0
    /\ p["Bianco"] + p["Verde"] + p["Giallo"] + p["Rosso"] = PGrid

\* every assignment of -1/PGrid .. 1 to the four classes
AnyPosteriors == [Severities -> -1..PGrid]

\* a distribution with the entry of one class deleted
MissingClass ==
    {[c \in Severities \ {m} |-> p[c]] : p \in Posteriors, m \in Severities}

InitDecideAny ==
    /\ InitQueue
    /\ snap = NoSnap
    /\ thr = NoThreads
    /\ pc = "idle"
    /\ facts_in = <<>>
    /\ rules_out = <<>>
    /\ probs = <<>>
    /\ y_final = ""
    /\ nb_calls = 0
    /\ nb_model = "loaded"
    /\ chain = NoChain
    /\ dec \in {DecideArgs(p, m, rosso_min_prob, map_margin) :
                p \in AnyPosteriors \cup MissingClass, m \in TriageMins}

\* line 115: probs[ytrue] for a class that probs lacks raises KeyError out
\* of argmin_expected_cost and decide_cost_sensitive
DecideRaises ==
    /\ dec.pc = "called"
    /\ DOMAIN dec.p # Severities
    /\ dec' = [dec EXCEPT !.pc = "raised"]
    /\ UNCHANGED <<queue_vars, snap, thr, pc, facts_in, rules_out, probs,
                   y_final, nb_calls, nb_model, chain>>

NextDecideAny ==
    \/ Decide
    \/ DecideRaises

SpecDecideAny == InitDecideAny /\ [][NextDecideAny]_vars

---------------------------------------------------------------------------
(* The severity comparisons of the three modules on the same arguments:   *)
(* rules_engine.max_severity, naive_bayes.max_severity and the rank that   *)
(* Patient.__post_init__ reads from SEVERITY_RANK.                         *)

InitSeverity ==
    /\ InitQueue
    /\ snap = NoSnap
    /\ thr = NoThreads
    /\ pc = "idle"
    /\ facts_in = <<>>
    /\ rules_out = <<>>
    /\ probs = <<>>
    /\ y_final = ""
    /\ nb_calls = 0
    /\ nb_model = "loaded"
    /\ chain = NoChain
    /\ dec \in {[pc |-> "severities", a |-> a, b |-> b, c |-> c] :
                    a \in Severities, b \in Severities, c \in Severities}

\* the calls on (a, b), (b, a), (a, a) and nested on (a, b, c)
CompareSeverities ==
    /\ dec.pc = "severities"
    /\ dec' = [pc |-> "compared", a |-> dec.a, b |-> dec.b, c |-> dec.c,
               re_ab |-> max_severity(dec.a, dec.b),
               re_ba |-> max_severity(dec.b, dec.a),
               re_aa |-> max_severity(dec.a, dec.a),
               re_ab_c |-> max_severity(max_severity(dec.a, dec.b), dec.c),
               re_a_bc |-> max_severity(dec.a, max_severity(dec.b, dec.c)),
               nb_ab |-> nb_max_severity(dec.a, dec.b),
               nb_ba |-> nb_max_severity(dec.b, dec.a),
               nb_aa |-> nb_max_severity(dec.a, dec.a),
               nb_ab_c |-> nb_max_severity(nb_max_severity(dec.a, dec.b), dec.c),
               nb_a_bc |-> nb_max_severity(dec.a, nb_max_severity(dec.b, dec.c)),
               rank_a |-> SEVERITY_RANK[dec.a],
               rank_b |-> SEVERITY_RANK[dec.b]]
    /\ UNCHANGED <<queue_vars, snap, thr, pc, facts_in, rules_out, probs,
                   y_final, nb_calls, nb_model, chain>>

NextSeverity == CompareSeverities

SpecSeverity == InitSeverity /\ [][NextSeverity]_vars

---------------------------------------------------------------------------
(* Properties of the decision-fusion pipeline *)

\* the floor the pipeline hands to the decider for the current request
Floor == compute_triage_min_from_fired(rules_out.fired)

\* severities hard-assigned (then = {triage: s}) by the rules that fired
HardAssigned ==
    {default_kb[i].then["triage"] :
        i \in {j \in 1..Len(default_kb) :
                /\ InSeq(default_kb[j].id, rules_out.fired)
                /\ "triage" \in DOMAIN default_kb[j].then}}

MostSevere(S) == CHOOSE a \in S : \A b \in S : OrderIndex(a) >= OrderIndex(b)

OnlySpo2Severa ==
    [k \in FeatureNames |-> IF k = "spo2_cat" THEN "severa" ELSE "unknown"]

\* C1: if the rule engine yields a floor f and no hard top severity, the
\* final severity of the pipeline is never less severe than f, for every
\* fact set and every posterior the estimator can return.
C1_FloorRespected ==
    (pc = "done" /\ Floor # NoneVal) =>
        ClassIndex(y_final) >= ClassIndex(Floor)

\* C2: whenever the rule engine returns Rosso, the estimator and the
\* cost-sensitive decider are not invoked for that request and the final
\* severity is Rosso; spo2_cat = severa with everything else unknown is
\* such a request.
C2_RossoSkipsEstimator ==
    /\ nb_calls \in {0, 1}
    /\ (pc # "idle" /\ rules_out.triage = "Rosso") =>
            (pc = "done" /\ nb_calls = 0 /\ y_final = "Rosso")
    /\ (pc # "idle" /\ facts_in = OnlySpo2Severa) => rules_out.triage = "Rosso"
    /\ (pc = "done" /\ rules_out.triage # "Rosso") => nb_calls = 1

C2_Witness ==
    /\ pc = "done"
    /\ facts_in = OnlySpo2Severa
    /\ rules_out.fired = <<"R1_ipossia_shock_coscienza">>
    /\ y_final = "Rosso"
    /\ nb_calls = 0

\* C3: when hard-assign rules fire during forward_chain, the severity it
\* reports is the most severe of all hard assignments applied (raised to
\* the floor when a triage_min rule fired too), not the last one applied.
C3_MostSevereHardAssign ==
    (pc # "idle" /\ HardAssigned # {}) =>
        rules_out.triage =
            IF Floor = NoneVal THEN MostSevere(HardAssigned)
            ELSE max_severity(MostSevere(HardAssigned), Floor)

\* temp_cat = alta, dispnea = no, alterazione_coscienza = no, and none of
\* the conditions of the Rosso rules R1, R2
FeverWithoutAlarm(facts) ==
    /\ Get(facts, "temp_cat") = "alta"
    /\ Get(facts, "dispnea") = "no"
    /\ Get(facts, "alterazione_coscienza") = "no"
    /\ Get(facts, "spo2_cat") # "severa"
    /\ Get(facts, "sbp_cat") # "severa"
    /\ Get(facts, "trauma_magg") # "yes"
    /\ Get(facts, "sanguinamento_massivo") # "yes"

\* C23: when the probabilities the decider works on do not sum to 1,
\* contain a negative value or lack one of the four classes,
\* decide_cost_sensitive fails with an error instead of returning a class.
C23_InvalidPosteriorRejected ==
    (dec.pc \in {"done", "raised"} /\ ~ValidPosterior(dec.p)) => dec.pc = "raised"

\* C24: when the estimator is unavailable or untrained, requests are still
\* taken: a case for which the rule engine fires Rosso is finalized as
\* Rosso, and every other case is reported as 'classifier unavailable'
\* rather than assigned a severity.
C24_UnavailableEstimator ==
    nb_model = "unavailable" =>
        /\ pc \in {"idle", "done"}
        /\ pc = "done" =>
              y_final = IF rules_out.triage = "Rosso" THEN "Rosso"
                        ELSE "classifier unavailable"

\* the step-wise call and the function agree on what is returned
ChainAgrees ==
    chain.pc = "done" =>
        forward_chain(chain.caller, chain.kb) =
            [triage |-> chain.triage, fired |-> chain.fired, facts |-> chain.facts]

\* the fact set with its missing features filled in as unknown
Filled(facts) ==
    [k \in ChainFeatures \cup DOMAIN facts |->
        IF k \in DOMAIN facts THEN facts[k] ELSE "unknown"]

\* C25: for every rule set and every fact set the call returns the same
\* severity and the same fired list as the call on the fact set with its
\* missing features filled in as unknown
C25_MissingIsUnknown ==
    chain.pc = "done" =>
        LET filled == forward_chain(Filled(chain.caller), chain.kb)
        IN /\ filled.triage = chain.triage
           /\ filled.fired = chain.fired

\* C26: a call of forward_chain never changes the dict the caller passed
\* nor the rule set nor anything of the priority queue; the severity is
\* written to the working copy only, which is the one returned (a call
\* that fired no rule returns the copy without a severity)
C26_CallerFactsUntouched ==
    /\ [][ /\ chain'.caller = chain.caller
           /\ chain'.kb = chain.kb
           /\ queue_vars' = queue_vars ]_vars
    /\ [](chain.pc = "done" =>
            /\ "triage" \notin DOMAIN chain.caller
            /\ "triage" \in DOMAIN chain.facts => chain.facts["triage"] = chain.triage
            /\ chain.fired # <<>> => "triage" \in DOMAIN chain.facts
            /\ \A k \in DOMAIN chain.caller : chain.facts[k] = chain.caller[k])

C26_Witness ==
    /\ chain.pc = "done"
    /\ Len(chain.fired) = 2
    /\ chain.triage = "Rosso"
    /\ DOMAIN chain.caller = ChainFeatures
    /\ chain.facts # chain.caller

\* positions in kb of the rules not yet fired that match the working facts
Eligible(c) ==
    {j \in 1..Len(c.kb) : ~InSeq(c.kb[j].id, c.fired) /\ matches(c.kb[j], c.facts)}

\* the rule at position i goes before the rule at position j: higher
\* priority, then more conditions, then declared earlier
GoesBefore(kb, i, j) ==
    \/ kb[i].priority > kb[j].priority
    \/ /\ kb[i].priority = kb[j].priority
       /\ Len(kb[i].any_conditions) + Len(kb[i].all_conditions)
            > Len(kb[j].any_conditions) + Len(kb[j].all_conditions)
    \/ /\ kb[i].priority = kb[j].priority
       /\ Len(kb[i].any_conditions) + Len(kb[i].all_conditions)
            = Len(kb[j].any_conditions) + Len(kb[j].all_conditions)
       /\ i < j

\* C27: every iteration that changes the working state fires exactly one
\* rule, the eligible rule that goes before every other eligible rule, and
\* appends its id to fired; the rule's conclusion is what the iteration wrote
C27_FiresTheBestRule ==
    [][ (chain.pc = "loop" /\ chain'.pc # "done") =>
            \E i \in Eligible(chain) :
                /\ \A j \in Eligible(chain) \ {i} : GoesBefore(chain.kb, i, j)
                /\ chain'.fired = Append(chain.fired, chain.kb[i].id)
                /\ "triage" \in DOMAIN chain.kb[i].then =>
                        Get(chain'.facts, "triage") = chain.kb[i].then["triage"]
                /\ "triage" \notin DOMAIN chain.kb[i].then =>
                        chain'.facts = chain.facts ]_vars

\* the first of two matching rules of equal priority and specificity fired
C27_Witness ==
    /\ chain.pc = "loop"
    /\ Len(chain.kb) = 2
    /\ chain.fired = <<"R1">>
    /\ matches(chain.kb[2], chain.caller)
    /\ chain.kb[2].priority = chain.kb[1].priority
    /\ specificity(chain.kb[2]) = specificity(chain.kb[1])
    /\ specificity(chain.kb[1]) > 0

\* C28: every call of forward_chain returns, after at most as many
\* iterations as the rule set has rules, and no rule id is twice in fired
C28_Terminates ==
    /\ <>(chain.pc = "done")
    /\ [](Len(chain.fired) <= Len(chain.kb))
    /\ [](\A i, j \in 1..Len(chain.fired) : chain.fired[i] = chain.fired[j] => i = j)

\* every rule fired, and the first still matches the facts returned
C28_Witness ==
    /\ chain.pc = "done"
    /\ Len(chain.kb) = MaxRules
    /\ Len(chain.fired) = Len(chain.kb)
    /\ matches(chain.kb[1], chain.facts)
    /\ specificity(chain.kb[1]) > 0

\* the rule of the rule set with this id
RuleOf(kb, id) == CHOOSE r \in {kb[j] : j \in 1..Len(kb)} : r.id = id

SetsRosso(r) == "triage" \in DOMAIN r.then /\ r.then["triage"] = "Rosso"

Holds(facts, c) == c[1] \in DOMAIN facts /\ facts[c[1]] = c[2]

Satisfied(r, facts) ==
    /\ \A i \in 1..Len(r.all_conditions) : Holds(facts, r.all_conditions[i])
    /\ r.any_conditions # <<>> =>
            \E i \in 1..Len(r.any_conditions) : Holds(facts, r.any_conditions[i])

\* C30: for every rule of the rule set and the working facts of every
\* iteration, matches is true iff all the all_conditions pairs hold and, if
\* there are any_conditions, one of them holds; a rule with no condition
\* matches; and an iteration fires iff such a rule is still unfired
C30_MatchesIff ==
    /\ \A j \in 1..Len(chain.kb) :
            /\ matches(chain.kb[j], chain.facts) <=> Satisfied(chain.kb[j], chain.facts)
            /\ (chain.kb[j].all_conditions = <<>> /\ chain.kb[j].any_conditions = <<>>)
                    => matches(chain.kb[j], chain.facts)
    /\ chain.pc = "loop" =>
            (ENABLED ChainFire <=>
                \E j \in 1..Len(chain.kb) :
                    /\ ~InSeq(chain.kb[j].id, chain.fired)
                    /\ Satisfied(chain.kb[j], chain.facts))

\* a rule with both kinds of conditions fired on a derived fact, its first
\* any-condition failing and its second holding
C30_Witness ==
    /\ chain.pc = "done"
    /\ chain.fired = <<"R1", "R2">>
    /\ chain.kb[2].all_conditions = <<CondDispnea, CondVerde>>
    /\ chain.kb[2].any_conditions = <<CondSevera, CondDispnea>>
    /\ ~Holds(chain.caller, CondSevera)
    /\ ~Satisfied(chain.kb[2], chain.caller)

\* the triage_min targets of the rules fired so far
FloorTargets(c) ==
    {RuleOf(c.kb, c.fired[i]).then["triage_min"] :
        i \in {k \in 1..Len(c.fired) :
                  "triage_min" \in DOMAIN RuleOf(c.kb, c.fired[k]).then}}

\* C31: the running triage_min of a call never decreases; it is absent iff
\* no triage_min rule has fired, else it is the most severe target of the
\* triage_min rules fired so far; the severity returned is not below it
C31_FloorMonotone ==
    /\ [][ chain.triage_min # NoneVal =>
               /\ chain'.triage_min # NoneVal
               /\ OrderIndex(chain'.triage_min) >= OrderIndex(chain.triage_min) ]_vars
    /\ [](chain.triage_min = NoneVal <=> FloorTargets(chain) = {})
    /\ [](chain.triage_min # NoneVal =>
               /\ chain.triage_min \in FloorTargets(chain)
               /\ \A t \in FloorTargets(chain) :
                       OrderIndex(t) <= OrderIndex(chain.triage_min))
    /\ []((chain.pc = "done" /\ chain.triage_min # NoneVal) =>
               OrderIndex(chain.triage) >= OrderIndex(chain.triage_min))

\* a lower target fired after a higher one, and the floor lifted the result
C31_Witness ==
    /\ chain.pc = "done"
    /\ Len(chain.fired) = 2
    /\ RuleOf(chain.kb, chain.fired[1]).then = ("triage_min" :> "Giallo")
    /\ RuleOf(chain.kb, chain.fired[2]).then = ("triage_min" :> "Verde")
    /\ chain.triage_min = "Giallo"
    /\ chain.triage = "Giallo"

\* C33: when forward_chain returns Rosso the pipeline returns Rosso with
\* probability 1 on Rosso and 0 on Bianco, Verde and Giallo, and the fired
\* list and facts it returns are those forward_chain returned for the facts
C33_DegeneratePosterior ==
    (pc = "done" /\ rules_out.triage = "Rosso") =>
        /\ y_final = "Rosso"
        /\ DOMAIN probs = Severities
        /\ probs["Rosso"] = PGrid
        /\ \A c \in Severities \ {"Rosso"} : probs[c] = 0
        /\ rules_out.fired = forward_chain(facts_in, default_kb).fired
        /\ rules_out.facts = forward_chain(facts_in, default_kb).facts
        /\ rules_out.facts["triage"] = "Rosso"

C33_Witness ==
    /\ pc = "done"
    /\ rules_out.triage = "Rosso"
    /\ rules_out.fired = <<"R2_trauma_o_sanguinamento">>
    /\ probs["Rosso"] = PGrid

\* a is below b in the list: a stands before b
BelowIn(order, a, b) ==
    \E i, j \in 1..Len(order) : i < j /\ order[i] = a /\ order[j] = b

\* C34: ORDER, CLASSES and SEVERITY_ORDER are the same list of the four
\* severities, Bianco < Verde < Giallo < Rosso; of two distinct severities
\* exactly one is below the other; both max_severity functions return the
\* greater argument and are commutative, idempotent and associative
C34_OneSeverityOrder ==
    dec.pc = "compared" =>
        LET a == dec.a
            b == dec.b
            greater == IF BelowIn(SEVERITY_ORDER, a, b) THEN b ELSE a
        IN /\ ORDER = <<"Bianco", "Verde", "Giallo", "Rosso">>
           /\ CLASSES = ORDER
           /\ SEVERITY_ORDER = ORDER
           /\ a # b => (BelowIn(ORDER, a, b) <=> ~BelowIn(ORDER, b, a))
           /\ ~BelowIn(ORDER, a, a)
           /\ dec.rank_a < dec.rank_b <=> BelowIn(ORDER, a, b)
           /\ dec.re_ab = greater /\ dec.nb_ab = greater
           /\ dec.re_ab = dec.re_ba /\ dec.nb_ab = dec.nb_ba
           /\ dec.re_aa = a /\ dec.nb_aa = a
           /\ dec.re_ab_c = dec.re_a_bc /\ dec.nb_ab_c = dec.nb_a_bc

C34_Witness ==
    /\ dec.pc = "compared"
    /\ dec.a = "Verde" /\ dec.b = "Rosso" /\ dec.c = "Giallo"
    /\ dec.re_ab = "Rosso" /\ dec.nb_ba = "Rosso"
    /\ dec.re_a_bc = "Rosso"

\* C35: with the default rule set on preprocessed facts, a finished
\* evaluation has fired at least one rule, and R6_fallback_bianco last
\* unless the evaluation reached Rosso; at every moment the rules fired so
\* far are in strictly decreasing priority
C35_FallbackFiresLast ==
    /\ chain.pc = "done" =>
            /\ chain.fired # <<>>
            /\ chain.triage # "Rosso" =>
                    chain.fired[Len(chain.fired)] = "R6_fallback_bianco"
            /\ chain.triage = "Rosso" => ~InSeq("R6_fallback_bianco", chain.fired)
    /\ \A i, j \in 1..Len(chain.fired) :
            i < j => RuleOf(chain.kb, chain.fired[i]).priority
                        > RuleOf(chain.kb, chain.fired[j]).priority

\* the fever rule fired before the fallback
C35_Witness ==
    /\ chain.pc = "done"
    /\ chain.kb = default_kb
    /\ chain.triage = "Bianco"
    /\ chain.fired = <<"R5_febbre_alta_senza_allarme", "R6_fallback_bianco">>

\* C39: for every fact set, compute_triage_min_from_fired on the fired
\* list of forward_chain gives the triage_min forward_chain itself ended
\* with, or None when that is None
C39_FloorFromFired ==
    (chain.pc = "done" /\ chain.kb = default_kb) =>
        compute_triage_min_from_fired(chain.fired) = chain.triage_min

C39_Witness ==
    /\ chain.pc = "done"
    /\ chain.kb = default_kb
    /\ chain.triage_min = "Giallo"
    /\ chain.fired = <<"R3_dolore_toracico_e_dispnea",
                       "R4_tachipnea_moderata_con_dispnea", "R6_fallback_bianco">>

\* C14: for facts with temp_cat = alta, dispnea = no,
\* alterazione_coscienza = no and no other alarm, forward_chain with the
\* default rule set returns Verde.
C14_FeverIsVerde ==
    (pc # "idle" /\ FeverWithoutAlarm(facts_in)) => rules_out.triage = "Verde"

---------------------------------------------------------------------------
(* Properties of the cost-sensitive decider *)

\* the guardrail replaced the choice; the MAP fallback replaced the choice
GuardrailFired == dec.y_guard # dec.y_floor
MapOverrideFired == dec.y # dec.y_guard

\* C11: guardrail: for every posterior and every setting of rosso_min_prob
\* and map_margin, if triage_min is None or below Rosso and
\* P(Rosso) < rosso_min_prob, decide_cost_sensitive does not return Rosso.
C11_GuardrailNoRosso ==
    ( /\ dec.pc = "done"
      /\ dec.triage_min # "Rosso"
      /\ 100 * dec.p["Rosso"] < dec.min_prob_pct * PGrid ) => dec.y # "Rosso"

\* the class of maximum posterior probability, the first in class order
\* when several have it
MaxProbClass(p) ==
    CHOOSE m \in Severities :
        \A c \in Severities :
            \/ p[m] > p[c]
            \/ p[m] = p[c] /\ ClassIndex(m) <= ClassIndex(c)

C12_MinimalExpectedCost ==
    ( /\ dec.pc = "done"
      /\ dec.triage_min = NoneVal
      /\ ~GuardrailFired
      /\ ~MapOverrideFired ) =>
        \A c \in Severities :
            /\ expected_cost(dec.p, dec.y) <= expected_cost(dec.p, c)
            /\ expected_cost(dec.p, dec.y) = expected_cost(dec.p, c) =>
                    ClassIndex(dec.y) <= ClassIndex(c)

C12_Witness ==
    /\ dec.pc = "done"
    /\ dec.triage_min = NoneVal
    /\ ~GuardrailFired
    /\ ~MapOverrideFired
    /\ dec.min_prob_pct = rosso_min_prob
    /\ dec.margin_pct = map_margin
    /\ \E c \in Severities :
         /\ c # dec.y
         /\ expected_cost(dec.p, c) = expected_cost(dec.p, dec.y)

\* C13: the cost matrix a decide_cost_sensitive call uses by default,
\* DEFAULT_COST, is non-negative, zero on the diagonal, and for every
\* pair of classes a < b predicting a when the truth is b costs strictly
\* more than predicting b when the truth is a.
C13_CostAsymmetric ==
    dec.pc = "done" =>
        /\ \A a, b \in Severities : DEFAULT_COST(a, b) >= 0
        /\ \A a \in Severities : DEFAULT_COST(a, a) = 0
        /\ \A a, b \in Severities :
             ClassIndex(a) < ClassIndex(b) => DEFAULT_COST(b, a) > DEFAULT_COST(a, b)

---------------------------------------------------------------------------
(* Properties of the queue *)

Rank(t) == SEVERITY_RANK[t.triage]

\* t is served before u in the derived global order of the spec:
\* severity descending, then arrival timestamp, then enqueue order
Precedes(t, u) ==
    \/ Rank(t) > Rank(u)
    \/ /\ Rank(t) = Rank(u)
       /\ \/ t.arrival_ts < u.arrival_ts
          \/ t.arrival_ts = u.arrival_ts /\ t.obj < u.obj

HeldObj(q, n) == {t \in Held(q) : t.obj = n}

\* C4: after any sequence of enqueue, serve_next and remove, snapshot()
\* lists every queued ticket exactly once, ordered by severity descending
\* and, within a severity, by arrival timestamp ascending; a queue built by
\* enqueue(low), enqueue(high), enqueue(low) at non-decreasing timestamps
\* gives [high#2, low#1, low#3].
C4_SnapshotOrdered ==
    LET s == Snapshot(queues)
    IN /\ Len(s) = TotalLen(queues)
       /\ \A t \in Held(queues) : Cardinality({i \in 1..Len(s) : s[i] = t}) = 1
       /\ \A i \in 1..Len(s) : s[i] \in Held(queues)
       /\ \A i, j \in 1..Len(s) :
            i < j => \/ Rank(s[i]) > Rank(s[j])
                     \/ /\ Rank(s[i]) = Rank(s[j])
                        /\ s[i].arrival_ts <= s[j].arrival_ts
       /\ \A t1 \in HeldObj(queues, 1), t2 \in HeldObj(queues, 2), t3 \in HeldObj(queues, 3) :
            ( /\ TotalLen(queues) = 3
              /\ t1.triage = t3.triage
              /\ Rank(t2) > Rank(t1)
              /\ t1.arrival_ts <= t2.arrival_ts
              /\ t2.arrival_ts <= t3.arrival_ts )
            => s = <<t2, t1, t3>>

C4_Witness ==
    /\ TotalLen(queues) = 3
    /\ \E t1 \in HeldObj(queues, 1), t2 \in HeldObj(queues, 2), t3 \in HeldObj(queues, 3) :
         /\ t1.triage = "Verde" /\ t3.triage = "Verde" /\ t2.triage = "Rosso"
         /\ t1.arrival_ts = 1 /\ t2.arrival_ts = 2 /\ t3.arrival_ts = 2
         /\ Snapshot(queues) = <<t2, t1, t3>>

\* C5: on a non-empty queue serve_next removes and returns a ticket of the
\* most severe non-empty bucket, the one with the smallest (arrival
\* timestamp, enqueue sequence) pair of that bucket; no ticket is returned
\* while a strictly more severe one is still queued.
C5_ServeNextEarliestOfTop ==
    ret.op = "serve_next" =>
        IF ret.val = <<>>
        THEN TotalLen(queues) = 0
        ELSE LET t == ret.val[1]
             IN /\ t \notin Held(queues)
                /\ \A u \in Held(queues) : Rank(u) <= Rank(t)
                /\ \A u \in Held(queues) :
                     u.triage = t.triage =>
                        \/ t.arrival_ts < u.arrival_ts
                        \/ t.arrival_ts = u.arrival_ts /\ t.obj < u.obj

C5_Witness ==
    /\ ret.op = "serve_next"
    /\ ret.val # <<>>
    /\ \E u \in Held(queues) :
         /\ u.triage = ret.val[1].triage
         /\ u.arrival_ts = ret.val[1].arrival_ts
    /\ \E u \in Held(queues) : Rank(u) < Rank(ret.val[1])

\* C6: round trip: N consecutive serve_next calls return the tickets in
\* exactly the order of the snapshot() taken before the first of them, and
\* leave the queue empty.
C6_RoundTrip ==
    snap.valid =>
        /\ Len(snap.served) <= Len(snap.list)
        /\ snap.served = SubSeq(snap.list, 1, Len(snap.served))
        /\ Len(snap.served) = Len(snap.list) => TotalLen(queues) = 0
        /\ TotalLen(queues) = 0 => snap.served = snap.list

C6_Witness ==
    /\ snap.valid
    /\ Len(snap.list) = 3
    /\ snap.served = snap.list
    /\ TotalLen(queues) = 0
    /\ snap.list[1].triage = snap.list[2].triage
    /\ snap.list[1].arrival_ts = snap.list[2].arrival_ts
    /\ snap.list[2].triage = snap.list[3].triage
    /\ snap.list[3].obj < snap.list[2].obj

\* C8: two tickets of one severity enqueued with identical timestamps
\* appear in snapshot(), and are served by serve_next, in the order of their
\* enqueue calls, in every state in which both are queued; the order of any
\* snapshot() is the strict total order Precedes.
C8_TiesByEnqueueOrder ==
    LET s == Snapshot(queues)
    IN /\ \A i, j \in 1..Len(s) :
            ( /\ i < j
              /\ s[i].triage = s[j].triage
              /\ s[i].arrival_ts = s[j].arrival_ts ) => s[i].obj < s[j].obj
       /\ \A i, j \in 1..Len(s) : i < j <=> Precedes(s[i], s[j])
       /\ (ret.op = "serve_next" /\ ret.val # <<>>) =>
            \A u \in Held(queues) :
                ( /\ u.triage = ret.val[1].triage
                  /\ u.arrival_ts = ret.val[1].arrival_ts ) => ret.val[1].obj < u.obj

C8_Witness ==
    LET s == Snapshot(queues)
    IN /\ Len(s) = 2
       /\ s[1].triage = s[2].triage
       /\ s[1].arrival_ts = s[2].arrival_ts
       /\ s[1].obj + 1 < s[2].obj
       /\ ret.op = "remove"
       /\ ret.val # <<>>

\* 1-based index of the Patient t in the list s
IndexIn(s, t) == CHOOSE i \in 1..Len(s) : s[i] = t

\* the Patient the next serve_next() call returns from a non-empty q
NextServed(q) == q[ServeLevel(q)][EarliestIdx(q[ServeLevel(q)])]

\* C15: for every ticket in the queue, get_position(id) is its 1-based
\* index in snapshot(); the ticket at position 1 is the one the next
\* serve_next returns.
C15_PositionIsSnapshotIndex ==
    \A t \in Held(queues) :
        /\ get_position(queues, t.patient_id) = <<IndexIn(Snapshot(queues), t)>>
        /\ get_position(queues, t.patient_id) = <<1>> => NextServed(queues) = t

\* the list s without the Patient t
Without(s, t) == SelectSeq(s, LAMBDA x : x # t)

\* C16: remove(id) on a queue holding a ticket with that id removes and
\* returns a ticket with that id, decreases the size by one, and leaves
\* every other ticket queued, in the same relative order in snapshot().
C16_RemoveExactlyThat ==
    [][ ( /\ ret'.op = "remove"
          /\ \E t \in Held(queues) : t.patient_id = ret'.arg ) =>
            /\ ret'.val # <<>>
            /\ ret'.val[1] \in Held(queues)
            /\ ret'.val[1].patient_id = ret'.arg
            /\ TotalLen(queues') = TotalLen(queues) - 1
            /\ Held(queues') = Held(queues) \ {ret'.val[1]}
            /\ Snapshot(queues') = Without(Snapshot(queues), ret'.val[1]) ]_vars

C16_Witness ==
    /\ ret.op = "remove"
    /\ ret.val # <<>>
    /\ ret.val[1].obj = 1
    /\ TotalLen(queues) = 2
    /\ \A u \in Held(queues) :
         u.triage = ret.val[1].triage /\ u.arrival_ts = ret.val[1].arrival_ts
    /\ \E u \in Held(queues) : u.patient_id = ret.arg

\* ids of the queued tickets
HeldIds(q) == {t.patient_id : t \in Held(q)}

\* C17: remove(id) and get_position(id) with an id that no queued ticket
\* holds (never handed out, or its ticket already served or removed) return
\* None and leave every bucket unchanged.
C17_AbsentIdReturnsNone ==
    [][ ( /\ ret'.op \in {"remove", "get_position"}
          /\ ret'.arg \notin HeldIds(queues) ) =>
            /\ ret'.val = <<>>
            /\ queues' = queues ]_vars

C17_Witness ==
    /\ ret.op = "remove"
    /\ ret.arg = new_patient_id(1)
    /\ ret.val = <<>>
    /\ n_returned = 1
    /\ TotalLen(queues) = 1

\* C18: serve_next on a queue whose four buckets are all empty returns
\* None and leaves the queue empty.
C18_ServeNextOnEmpty ==
    [][ ( /\ ret'.op = "serve_next"
          /\ \A lvl \in Severities : queues[lvl] = <<>> ) =>
            /\ ret'.val = <<>>
            /\ \A lvl \in Severities : queues'[lvl] = <<>> ]_vars

C18_Witness ==
    /\ ret.op = "serve_next"
    /\ ret.val = <<>>
    /\ n_enqueued = 2
    /\ n_returned = 2
    /\ \A lvl \in Severities : queues[lvl] = <<>>

\* the read-only methods
ReadOps == {"snapshot", "get_position", "len"}

C20_SizeIsBalance ==
    /\ TotalLen(queues) = Len(queues["Bianco"]) + Len(queues["Verde"])
                           + Len(queues["Giallo"]) + Len(queues["Rosso"])
    /\ TotalLen(queues) = n_enqueued - n_returned
    /\ TotalLen(queues) >= 0
    /\ ret.op = "len" => ret.val = <<n_enqueued - n_returned>>

C20_Witness ==
    /\ ret.op = "len"
    /\ ret.val = <<1>>
    /\ n_enqueued = 2
    /\ n_returned = 1
    /\ Len(queues["Rosso"]) = 1

\* enqueue(triage) as a call of its own: some patient_id and clock reading
EnqueueInto(triage) ==
    \E arg \in EnqueueArgs, ts \in 1..MaxTime : Enqueue(triage, arg, ts)

ExtractOps == {"serve_next", "remove"}

\* C22: ticket lifecycle: a ticket enters the queue only as the result of
\* an enqueue, stays queued with the same id, severity and arrival
\* timestamp until a serve_next or remove returns it, is returned by at
\* most one such call, and never reappears afterwards.
C22_TicketLifecycle ==
    /\ [](Cardinality({t.obj : t \in Held(queues)}) = TotalLen(queues))
    /\ [](\A t \in Held(queues) : t.obj \in 1..n_enqueued)
    /\ [][ \A t \in Held(queues') \ Held(queues) :
            /\ ret'.op = "enqueue"
            /\ ret'.val = <<t>>
            /\ t.obj = n_enqueued + 1 ]_vars
    /\ [][ \A t \in Held(queues) \ Held(queues') :
            /\ ret'.op \in ExtractOps
            /\ ret'.val = <<t>> ]_vars
    /\ [][ (ret'.op \in ExtractOps /\ ret'.val # <<>>) =>
            /\ ret'.val[1] \in Held(queues)
            /\ \A u \in Held(queues') : u.obj # ret'.val[1].obj ]_vars

C22_Witness ==
    /\ ret.op = "remove"
    /\ ret.val # <<>>
    /\ n_enqueued = 3
    /\ n_returned = 2
    /\ \E t \in Held(queues) : t.obj = 1 /\ t.patient_id = ret.arg

\* C36: after any sequence of operations the queue has exactly the four
\* buckets Bianco, Verde, Giallo, Rosso, every ticket of bucket L has
\* severity L, and no ticket is at two places of the queue
C36_TicketsInOwnBucket ==
    /\ DOMAIN queues = {"Bianco", "Verde", "Giallo", "Rosso"}
    /\ \A lvl \in DOMAIN queues : \A i \in 1..Len(queues[lvl]) :
            queues[lvl][i].triage = lvl
    /\ \A l1, l2 \in DOMAIN queues :
         \A i \in 1..Len(queues[l1]) : \A j \in 1..Len(queues[l2]) :
            queues[l1][i].obj = queues[l2][j].obj => (l1 = l2 /\ i = j)

\* two buckets hold tickets after a ticket was removed from a third
C36_Witness ==
    /\ ret.op = "remove"
    /\ ret.val # <<>>
    /\ ret.val[1].triage = "Giallo"
    /\ Len(queues["Rosso"]) = 1
    /\ Len(queues["Verde"]) = 1

\* C37: in every reachable queue state, also after enqueue calls with
\* caller-supplied ids, if get_position(id) returns k then remove(id)
\* removes and returns the ticket at index k of snapshot()
C37_RemoveAgreesWithPosition ==
    [][ (ret'.op = "remove" /\ get_position(queues, ret'.arg) # <<>>) =>
            ret'.val = <<Snapshot(queues)[get_position(queues, ret'.arg)[1]]>> ]_vars

\* the Patient object o is queued with severity lvl
QueuedAt(o, lvl) == \E i \in 1..Len(queues[lvl]) : queues[lvl][i].obj = o

\* the last call enqueued a ticket of a severity above lvl
EnqueuedAbove(lvl) ==
    /\ ret.op = "enqueue"
    /\ SEVERITY_RANK[ret.val[1].triage] > SEVERITY_RANK[lvl]

C9_UniqueIds ==
    \A t, u \in Held(queues) : t.patient_id = u.patient_id => t = u

\* C10: first come, first served within a severity: serve_next returns no
\* ticket while a ticket of the same severity enqueued before it is still
\* queued, and the arrival timestamps of every bucket are non-decreasing in
\* insertion order for every clock reading enqueue can take.
C10_FifoWithinSeverity ==
    /\ (ret.op = "serve_next" /\ ret.val # <<>>) =>
            \A u \in Held(queues) :
                u.triage = ret.val[1].triage => ret.val[1].obj < u.obj
    /\ \A lvl \in Severities : \A i, j \in 1..Len(queues[lvl]) :
            i < j => queues[lvl][i].arrival_ts <= queues[lvl][j].arrival_ts

\* tickets handed back by the threads' finished operations
RaceReturned == {thr[t].val[1] : t \in {u \in Threads : thr[u].val # <<>>}}

\* C7: queue operations are mutually exclusive: when serve_next and
\* remove(id) run concurrently, every ticket is extracted by at most one
\* operation, the ticket remove(id) returns has id `id`, and no other ticket
\* is lost from or duplicated in its bucket.
C7_MutualExclusion ==
    /\ \A t, u \in Threads :
         (t # u /\ thr[t].val # <<>> /\ thr[u].val # <<>>) => thr[t].val # thr[u].val
    /\ \A t \in Threads :
         (thr[t].op = "remove" /\ thr[t].val # <<>>) =>
            thr[t].val[1].patient_id = thr[t].pid
    /\ Cardinality(Held(queues)) = TotalLen(queues)
    /\ {x.obj : x \in Held(queues) \cup RaceReturned} = 1..n_enqueued

===========================================================================
